---------------------------- MODULE Spec2Model ----------------------------
(***************************************************************************)
(* static_any<_N> (any.hpp): a fixed-capacity, type-erasing value          *)
(* container.  The model keeps the object layout of the source:            *)
(*     std::array<char, _N> buff_;   function_ptr_t function_ = nullptr;   *)
(* at the granularity of one machine word (8 bytes): a container of        *)
(* capacity k words is the k words of buff_ followed by the word holding   *)
(* function_.  A value of type T is sizeof(T) words; constructing it at    *)
(* buff_.data() writes sizeof(T) consecutive words starting at the first   *)
(* word of buff_, whatever the capacity is: only copy_or_move compares     *)
(* sizeof(_T) with the capacity.  Every type of the model is at most one   *)
(* word larger than the smallest capacity, so a construction that overruns *)
(* buff_ writes its last word on function_ of the same object and nothing  *)
(* beyond it.  Words are plain numbers: 0 is the null pointer, a few       *)
(* numbers are the addresses of the dispatch routines, the others are      *)
(* addresses of nothing callable, and a call through one of those ends the *)
(* process (crashed).                                                      *)
(*                                                                         *)
(* live and stored are history variables (which object has been            *)
(* constructed in a cell and not yet destroyed, and with which value);     *)
(* last records what the last member function dispatched, which lifetime   *)
(* faults it committed, whether an exception left it and what an accessor  *)
(* returned.  The code reads none of the three.                            *)
(*                                                                         *)
(* static_any_t, the trivially-copyable holder of the same file, shares no *)
(* state with static_any and is not part of the model.                     *)
(***************************************************************************)
EXTENDS Integers, Sequences, FiniteSets, TLC

\* Words are 0..MaxWord.  Data and code addresses share the word domain.
MaxWord == 3

Word == 0..MaxWord

\* function_ptr_t function_ = nullptr;
nullptr == 0

\* The stored types: a one-word type (long) and a two-word aggregate (a pair
\* of words).
Types == {"L", "P"}

\* sizeof(_T), in words
sizeof(T) == IF T = "P" THEN 2 ELSE 1

\* The container objects: a is a static_any<8>, b is a static_any<16>.
Containers == {"a", "b"}

\* static constexpr size_type capacity() { return _N; }   (in words)
capacity(c) == IF c = "b" THEN 2 ELSE 1

\* &static_any::operation<T>: the address of the dispatch routine of T.
get_function_for_type(T) ==
    CASE T = "L" -> 1
      [] T = "P" -> 2

\* The words that are addresses of dispatch routines.
Routines == {get_function_for_type(T) : T \in Types}

\* The type a dispatch routine was instantiated for: what it returns,
\* typeid(_T), for every operation.
typeid_of(f) == CHOOSE T \in Types : get_function_for_type(T) = f

\* The values of type T the callers store: sizeof(T) words, the first one
\* among 0..MaxData, the others any word.
MaxData == 1

Values(T) == {v \in [1..sizeof(T) -> Word] : v[1] <= MaxData}

VARIABLES
    buff_,      \* buff_[c]: the capacity(c) words of c's storage cell
    function_,  \* function_[c]: the word holding c's dispatch reference
    alive,      \* alive[c]: c is between its constructor and its destructor
    live,       \* live[c]: type of the object constructed in c's cell, or "none"
    stored,     \* stored[c]: the value that object was constructed with
    crashed,    \* the process called through a word that is no routine
    last        \* what the last public operation did and returned

vars == <<buff_, function_, alive, live, stored, crashed, last>>

\* The state a handler works on, threaded through its statements.
Cur ==
    [buff_ |-> buff_, function_ |-> function_, live |-> live,
     stored |-> stored, crashed |-> crashed, thrown |-> FALSE,
     disp |-> {}, faults |-> {}]

\* A statement is not reached after a crash or a propagating exception.
Stopped(s) == s.crashed \/ s.thrown

\* How the constructor of the stored type behaves on one call: it returns,
\* or it throws after writing the first k words of the object.
Returns == [throws |-> FALSE, k |-> 0]
Throws(T) == {[throws |-> TRUE, k |-> k] : k \in 0..(sizeof(T) - 1)}

\* The arguments of a call whose constructor throws after k words: the words
\* it never reaches do not matter and are taken to be 0.
Reached(T, x) == {v \in Values(T) : \A i \in (x.k + 1)..sizeof(T) : v[i] = 0}

\* The words at and after buff_.data(): buff_, then function_.
Raw(s, c) == s.buff_[c] \o <<s.function_[c]>>

\* Writing the words v at buff_.data() of c.
write(s, c, v) ==
    LET raw == v \o SubSeq(Raw(s, c), Len(v) + 1, capacity(c) + 1)
    IN  [s EXCEPT !.buff_[c] = SubSeq(raw, 1, capacity(c)),
                  !.function_[c] = raw[capacity(c) + 1]]

\* *as<_T>(): the storage reinterpreted as a _T.
as(s, c, T) == SubSeq(Raw(s, c), 1, sizeof(T))

\* new(this_ptr) _T(v): a _T is constructed at buff_.data() of c.
placement_new(s, c, T, v) ==
    LET w == write(s, c, v)
    IN  [w EXCEPT !.live[c] = T,
                  !.stored[c] = v,
                  !.faults = IF s.live[c] # "none"
                             THEN @ \cup {"constructed_over_live"}
                             ELSE @]

\* this_ptr->~_T(): the destructor of T runs on the cell of c.
run_destructor(s, c, T) ==
    IF s.live[c] = T
    THEN [s EXCEPT !.live[c] = "none", !.stored[c] = <<>>]
    ELSE [s EXCEPT !.faults = @ \cup {"destroyed_not_live"}]


\* new(this_ptr) _T(...) when the constructor throws: the first x.k words
\* have been written and no object exists.
failed_new(s, c, T, v, x) ==
    LET w == write(s, c, SubSeq(v, 1, x.k))
    IN  [w EXCEPT !.thrown = TRUE,
                  !.faults = IF s.live[c] # "none"
                             THEN @ \cup {"constructed_over_live"}
                             ELSE @]

\* detail::static_any::operation<_T>(operation, this_void_ptr, other_void_ptr),
\* called through the word f.  this is the container whose buff_.data() is
\* this_ptr; other is the words found at other_ptr.
operation(s, f, op, this, other, x) ==
    IF f \notin Routines
    THEN [s EXCEPT !.crashed = TRUE]
    ELSE LET T  == typeid_of(f)
             s1 == [s EXCEPT !.disp = @ \cup {op}]
         IN  CASE op = "query_type" -> s1
               [] op \in {"copy", "move"} ->
                    IF x.throws
                    THEN failed_new(s1, this, T, SubSeq(other, 1, sizeof(T)), x)
                    ELSE placement_new(s1, this, T, SubSeq(other, 1, sizeof(T)))
               [] op = "destroy" -> run_destructor(s1, this, T)

\* void destroy()
destroy(s, c) ==
    IF Stopped(s) THEN s
    ELSE IF s.function_[c] # nullptr
    THEN LET t == operation(s, s.function_[c], "destroy", c, <<>>, Returns)
         IN  IF Stopped(t) THEN t ELSE [t EXCEPT !.function_[c] = nullptr]
    ELSE s

\* call_function<Ref>: move for an rvalue reference, copy otherwise.
call_function(s, c, ref, other, x) ==
    operation(s, s.function_[c], IF ref = "rvalue" THEN "move" ELSE "copy",
              c, other, x)

\* void copy_or_move(_T&& t).  The static_assert capacity() >= sizeof(_T) is
\* the guard FitsStatically of the callers: such a call does not compile.
copy_or_move(s, c, T, v, ref, x) ==
    IF Stopped(s) THEN s
    ELSE IF s.function_[c] # nullptr
    THEN [s EXCEPT !.crashed = TRUE, !.faults = @ \cup {"assert_failed"}]
    ELSE call_function([s EXCEPT !.function_[c] = get_function_for_type(T)],
                       c, ref, v, x)

FitsStatically(c, T) == capacity(c) >= sizeof(T)

\* void copy_from_another(const static_any<_M>& another)
copy_from_another(s, c, another, x) ==
    IF Stopped(s) THEN s
    ELSE IF s.function_[another] # nullptr
    THEN LET s1 == [s EXCEPT !.function_[c] = s.function_[another]]
         IN  operation(s1, s1.function_[c], "copy", c, Raw(s1, another), x)
    ELSE s

\* void emplace(Args&&... args)
emplace(s, c, T, v, x) ==
    LET s1 == destroy(s, c)
    IN  IF Stopped(s1) THEN s1
        ELSE IF x.throws THEN failed_new(s1, c, T, v, x)
        ELSE [placement_new(s1, c, T, v)
                 EXCEPT !.function_[c] = get_function_for_type(T)]

\* bool empty() const
empty(s, c) == s.function_[c] = nullptr

\* has<_T>() calls through function_ when it is neither null nor the routine
\* of _T; that call does not return when the word is no routine.
has_crashes(s, c, T) ==
    /\ s.function_[c] # get_function_for_type(T)
    /\ s.function_[c] # nullptr
    /\ s.function_[c] \notin Routines

\* bool has<_T>() const
has(s, c, T) ==
    IF s.function_[c] = get_function_for_type(T) THEN TRUE
    ELSE IF s.function_[c] # nullptr
    THEN s.function_[c] \in Routines /\ T = typeid_of(s.function_[c])
    ELSE FALSE

type_crashes(s, c) == ~empty(s, c) /\ s.function_[c] \notin Routines

\* const std::type_info& type() const
type(s, c) ==
    IF empty(s, c) THEN "void"
    ELSE IF s.function_[c] \in Routines THEN typeid_of(s.function_[c])
    ELSE "void"

\* What an accessor hands back.
NoRet ==
    [kind |-> "none", of |-> "", stored_type |-> "", target_type |-> "",
     val |-> <<>>]

\* bad_any_cast(from, to): stored_type() is from, target_type() is to.
bad_any_cast(from, to) ==
    [NoRet EXCEPT !.kind = "bad_any_cast", !.stored_type = from,
                  !.target_type = to]

\* any_cast(static_any<_S>*) without its has<_ValueT>() test.
any_cast_ptr_unchecked(s, c, T) ==
    [NoRet EXCEPT !.kind = "pointer", !.of = c, !.target_type = T,
                  !.val = as(s, c, T)]

\* _ValueT* any_cast(static_any<_S>* a)
any_cast_ptr(s, c, T) ==
    IF ~has(s, c, T)
    THEN [NoRet EXCEPT !.kind = "null", !.of = c, !.target_type = T]
    ELSE [NoRet EXCEPT !.kind = "pointer", !.of = c, !.target_type = T,
                       !.val = as(s, c, T)]

\* _ValueT& any_cast(static_any<_S>& a), and get<_T>() which forwards to it
any_cast_ref(s, c, T) ==
    IF ~has(s, c, T)
    THEN [bad_any_cast(type(s, c), T) EXCEPT !.of = c]
    ELSE [NoRet EXCEPT !.kind = "reference", !.of = c, !.target_type = T,
                       !.val = as(s, c, T)]


\* get<_T>() = v: the held value is assigned to through the reference.
assign_through(s, c, T, v) ==
    LET w == write(s, c, v)
    IN  IF s.live[c] = T THEN [w EXCEPT !.stored[c] = v] ELSE w

----------------------------------------------------------------------------
\* The value overloads are instantiated for an lvalue (_T&& with _T = U&) or
\* for an rvalue (_T = U).  The container-to-container overloads
\* (const static_any&, static_any&, static_any&&, and the same three for
\* static_any<_M>) have one and the same body, so one action stands for the six.
Refs == {"lvalue", "rvalue"}

\* The state after a handler is the state its last statement left.
Commit(s, r) ==
    /\ buff_' = s.buff_
    /\ function_' = s.function_
    /\ live' = s.live
    /\ stored' = s.stored
    /\ crashed' = s.crashed
    /\ last' = [disp |-> s.disp, faults |-> s.faults, thrown |-> s.thrown,
                ret |-> r]

\* A constructor starts from the member initialiser function_ = nullptr; buff_
\* is not initialised and keeps the words its memory held.
Fresh(c) == [Cur EXCEPT !.function_[c] = nullptr]

\* static_any() = default;
DefaultCtor(c) ==
    /\ ~crashed /\ ~alive[c]
    /\ alive' = [alive EXCEPT ![c] = TRUE]
    /\ Commit(Fresh(c), NoRet)

\* static_any(_T&& v)
ValueCtor(c, T, v, ref) ==
    /\ ~crashed /\ ~alive[c] /\ FitsStatically(c, T)
    /\ alive' = [alive EXCEPT ![c] = TRUE]
    /\ Commit(copy_or_move(Fresh(c), c, T, v, ref, Returns), NoRet)

\* static_any(const static_any&), (static_any&), (static_any&&) and the three
\* static_any<_M> templates
CopyCtor(c, another) ==
    /\ ~crashed /\ ~alive[c] /\ alive[another] /\ another # c
    /\ alive' = [alive EXCEPT ![c] = TRUE]
    /\ Commit(copy_from_another(Fresh(c), c, another, Returns), NoRet)

\* ~static_any().  An object still live in the cell when the container is
\* gone is never destroyed.
Dtor(c) ==
    /\ ~crashed /\ alive[c]
    /\ alive' = [alive EXCEPT ![c] = FALSE]
    /\ LET s == destroy(Cur, c)
       IN  Commit(IF ~Stopped(s) /\ s.live[c] # "none"
                  THEN [s EXCEPT !.live[c] = "none", !.stored[c] = <<>>,
                                 !.faults = @ \cup {"never_destroyed"}]
                  ELSE s, NoRet)

\* operator=(const static_any&), (static_any&), (static_any&&) and the three
\* static_any<_M> templates.  a = a is the call with another = c.
AssignAny(c, another) ==
    /\ ~crashed /\ alive[c] /\ alive[another]
    /\ UNCHANGED alive
    /\ Commit(copy_from_another(destroy(Cur, c), c, another, Returns), NoRet)

\* operator=(_T&&); operator=(const _T&) has the same two statements.
AssignValue(c, T, v, ref) ==
    /\ ~crashed /\ alive[c] /\ FitsStatically(c, T)
    /\ UNCHANGED alive
    /\ Commit(copy_or_move(destroy(Cur, c), c, T, v, ref, Returns), NoRet)

\* void reset()
Reset(c) ==
    /\ ~crashed /\ alive[c]
    /\ UNCHANGED alive
    /\ Commit(destroy(Cur, c), NoRet)

\* emplace<_T>(args...)
Emplace(c, T, v) ==
    /\ ~crashed /\ alive[c]
    /\ UNCHANGED alive
    /\ Commit(emplace(Cur, c, T, v, Returns), NoRet)

\* get<_T>() / any_cast<_T>(container&)
Get(c, T) ==
    /\ ~crashed /\ alive[c]
    /\ UNCHANGED alive
    /\ IF has_crashes(Cur, c, T) \/ (~has(Cur, c, T) /\ type_crashes(Cur, c))
       THEN Commit([Cur EXCEPT !.crashed = TRUE], NoRet)
       ELSE Commit(Cur, any_cast_ref(Cur, c, T))

\* any_cast<_T>(container*)
AnyCastPtr(c, T) ==
    /\ ~crashed /\ alive[c]
    /\ UNCHANGED alive
    /\ IF has_crashes(Cur, c, T)
       THEN Commit([Cur EXCEPT !.crashed = TRUE], NoRet)
       ELSE Commit(Cur, any_cast_ptr(Cur, c, T))

\* get<_T>() = v
Mutate(c, T, v) ==
    /\ ~crashed /\ alive[c]
    /\ ~has_crashes(Cur, c, T) /\ has(Cur, c, T)
    /\ UNCHANGED alive
    /\ Commit(assign_through(Cur, c, T, v), NoRet)

\* The same handlers when the constructor of the stored type throws.
AssignValueThrows(c, T, v, ref, x) ==
    /\ ~crashed /\ alive[c] /\ FitsStatically(c, T)
    /\ UNCHANGED alive
    /\ Commit(copy_or_move(destroy(Cur, c), c, T, v, ref, x), NoRet)

AssignAnyThrows(c, another, x) ==
    /\ ~crashed /\ alive[c] /\ alive[another] /\ another # c
    /\ function_[another] \in Routines
    /\ x \in Throws(typeid_of(function_[another]))
    /\ UNCHANGED alive
    /\ Commit(copy_from_another(destroy(Cur, c), c, another, x), NoRet)

EmplaceThrows(c, T, v, x) ==
    /\ ~crashed /\ alive[c]
    /\ UNCHANGED alive
    /\ Commit(emplace(Cur, c, T, v, x), NoRet)

----------------------------------------------------------------------------
\* Both containers have static storage duration and are default-constructed:
\* their memory is zero-initialised before the constructor runs.
Init ==
    /\ buff_ = [c \in Containers |-> [i \in 1..capacity(c) |-> 0]]
    /\ function_ = [c \in Containers |-> nullptr]
    /\ alive = [c \in Containers |-> TRUE]
    /\ live = [c \in Containers |-> "none"]
    /\ stored = [c \in Containers |-> <<>>]
    /\ crashed = FALSE
    /\ last = [disp |-> {}, faults |-> {}, thrown |-> FALSE, ret |-> NoRet]

Next ==
    \/ \E c \in Containers : DefaultCtor(c)
    \/ \E c \in Containers, T \in Types, ref \in Refs :
         \E v \in Values(T) : ValueCtor(c, T, v, ref)
    \/ \E c, another \in Containers : CopyCtor(c, another)
    \/ \E c \in Containers : Dtor(c)
    \/ \E c, another \in Containers : AssignAny(c, another)
    \/ \E c \in Containers, T \in Types, ref \in Refs :
         \E v \in Values(T) : AssignValue(c, T, v, ref)
    \/ \E c \in Containers : Reset(c)
    \/ \E c \in Containers, T \in Types : \E v \in Values(T) : Emplace(c, T, v)
    \/ \E c \in Containers, T \in Types : Get(c, T)
    \/ \E c \in Containers, T \in Types : AnyCastPtr(c, T)
    \/ \E c \in Containers, T \in Types : \E v \in Values(T) : Mutate(c, T, v)

Spec == Init /\ [][Next]_vars

NextFail ==
    \/ Next
    \/ \E c \in Containers, T \in Types, ref \in Refs :
         \E x \in Throws(T) : \E v \in Reached(T, x) :
            AssignValueThrows(c, T, v, ref, x)
    \/ \E c, another \in Containers :
         \E x \in Throws("P") : AssignAnyThrows(c, another, x)
    \/ \E c \in Containers, T \in Types :
         \E x \in Throws(T) : \E v \in Reached(T, x) :
            EmplaceThrows(c, T, v, x)

\* Spec with constructors of the stored type that may throw.
SpecFail == Init /\ [][NextFail]_vars


----------------------------------------------------------------------------
\* The observers, on the current state.
Has(c, T) == ~has_crashes(Cur, c, T) /\ has(Cur, c, T)
Empty(c) == empty(Cur, c)
TypeOf(c) == type(Cur, c)
Held(c) == as(Cur, c, live[c])

\* The lifetime faults a handler can commit on the cell it works on.
LifetimeFaults ==
    {"constructed_over_live", "destroyed_not_live", "never_destroyed",
     "assert_failed"}

\* C1: a container of capacity N that holds a value holds one whose size is
\* at most N (after any sequence of public operations).
C1_HeldValueFits ==
    \A c \in Containers :
        live[c] # "none" => sizeof(live[c]) <= capacity(c)

\* C2: function_ is null iff the cell holds no live value, and when non-null
\* it is the dispatch routine of the type of the live value (no constructor
\* fails in Spec).
C2_DiscriminantMatchesCell ==
    ~crashed =>
        \A c \in Containers :
            /\ (function_[c] = nullptr) <=> (live[c] = "none")
            /\ live[c] # "none" => function_[c] = get_function_for_type(live[c])

\* C3: copy-assigning or copy-constructing B from a distinct A that holds a
\* value v of type T leaves B holding a T equal to v, with B's previous value
\* destroyed, and every later operation on one of the two leaves the other's
\* type and value unchanged.
C3_CopyIsEqualAndIndependent ==
    [][\A B, A \in Containers :
        /\ (/\ B # A
            /\ live[A] # "none" /\ Has(A, live[A])
            /\ AssignAny(B, A) \/ CopyCtor(B, A))
           => /\ ~crashed'
              /\ Has(B, live[A])' /\ live'[B] = live[A]
              /\ Held(B)' = Held(A)
              /\ last'.faults = {}
              /\ live[B] # "none" => "destroy" \in last'.disp
        /\ (/\ B # A
            /\ \/ \E T \in Types, ref \in Refs : \E v \in Values(T) :
                    AssignValue(B, T, v, ref) \/ Emplace(B, T, v) \/ Mutate(B, T, v)
               \/ Reset(B) \/ AssignAny(B, A) \/ AssignAny(B, B))
           => /\ function_'[A] = function_[A]
              /\ buff_'[A] = buff_[A]
              /\ live'[A] = live[A] /\ stored'[A] = stored[A]
      ]_vars

\* C4: every container-to-container transfer invokes the copy operation of
\* the stored type, never its move operation, and leaves the source unchanged:
\* same dispatch reference, still non-empty, same value.
C4_TransferCopiesAndKeepsSource ==
    [][\A c, another \in Containers :
        (AssignAny(c, another) \/ CopyCtor(c, another)) /\ ~crashed'
        => /\ "move" \notin last'.disp
           /\ function_[another] # nullptr => "copy" \in last'.disp
           /\ function_'[another] = function_[another]
           /\ buff_'[another] = buff_[another]
           /\ live'[another] = live[another]
      ]_vars

\* C5: get<T>() returns the held value, equal to the value most recently
\* stored, when has<T>() holds; otherwise it raises bad_any_cast with
\* stored_type() = type() and target_type() = T, and changes nothing.
C5_ReferenceAccessor ==
    [][\A c \in Containers, T \in Types :
        Get(c, T) /\ ~crashed'
        => /\ UNCHANGED <<buff_, function_, alive, live, stored>>
           /\ Has(c, T) => /\ last'.ret.kind = "reference"
                           /\ last'.ret.val = stored[c]
           /\ ~Has(c, T) => /\ last'.ret.kind = "bad_any_cast"
                            /\ last'.ret.stored_type = TypeOf(c)
                            /\ last'.ret.target_type = T
      ]_vars

\* C6: any_cast<T>(container*) returns a null pointer exactly when has<T>()
\* is false and a pointer to the cell, read as a T, exactly when has<T>() is
\* true; it never raises bad_any_cast and never changes the container.
C6_PointerAccessor ==
    [][\A c \in Containers, T \in Types :
        AnyCastPtr(c, T) /\ ~crashed'
        => /\ UNCHANGED <<buff_, function_, alive, live, stored>>
           /\ last'.ret.kind = (IF Has(c, T) THEN "pointer" ELSE "null")
           /\ last'.ret.of = c /\ last'.ret.target_type = T
           /\ Has(c, T) => last'.ret.val = as(Cur, c, T)
           /\ ~last'.thrown /\ last'.faults = {}
      ]_vars

C6_Witness ==
    /\ last.ret.kind = "pointer" /\ last.ret.of = "b"
    /\ last.ret.target_type = "P" /\ live["b"] = "P"
    /\ last.ret.val = stored["b"] /\ ~crashed

\* C7: has<T>() is true iff a value is held and its type is T, type() is the
\* held type or typeid(void) when empty, and empty() is true iff no value is
\* held.
C7_ObserversAgree ==
    ~crashed =>
        \A c \in Containers :
            /\ \A T \in Types :
                   ~has_crashes(Cur, c, T) /\ (Has(c, T) <=> live[c] = T)
            /\ ~type_crashes(Cur, c)
            /\ TypeOf(c) = (IF live[c] = "none" THEN "void" ELSE live[c])
            /\ Empty(c) <=> live[c] = "none"

\* C8: a = a on a container that holds a value leaves it holding a value of
\* the same type, equal to the one it held, and not empty.
C8_SelfAssignKeepsValue ==
    [][\A c \in Containers :
        AssignAny(c, c) /\ function_[c] # nullptr /\ ~crashed'
        => /\ function_'[c] = function_[c]
           /\ ~Empty(c)'
           /\ live'[c] = live[c]
           /\ stored'[c] = stored[c]
      ]_vars

\* C9: with no constructor failing, no value is constructed over a live one,
\* the assertion of copy_or_move holds, and every value constructed in a cell
\* is destroyed exactly once.
C9_OneLiveValueDestroyedOnce ==
    last.faults \cap LifetimeFaults = {}

\* C10: after a failed construction during an assignment or an emplace, the
\* previous value has been destroyed exactly once, no destroy runs on storage
\* without a live value, and the discriminant is non-empty only if a live
\* value is held.
FailedOn(c) ==
    \/ \E T \in Types, ref \in Refs : \E x \in Throws(T) : \E v \in Reached(T, x) :
          AssignValueThrows(c, T, v, ref, x) \/ EmplaceThrows(c, T, v, x)
    \/ \E another \in Containers : \E x \in Throws("P") :
          AssignAnyThrows(c, another, x)

C10_FailurePathsReleaseCleanly ==
    [][\A c \in Containers :
        (/\ FailedOn(c)
         /\ (function_[c] = nullptr) <=> (live[c] = "none")
         /\ live[c] # "none" => function_[c] = get_function_for_type(live[c]))
        => /\ last'.thrown
           /\ live[c] # "none" => "destroy" \in last'.disp
           /\ "destroyed_not_live" \notin last'.faults
           /\ function_'[c] # nullptr => live'[c] # "none"
           /\ "destroyed_not_live" \notin destroy(Cur, c).faults'
      ]_vars

=============================================================================
